---- MODULE Spec2Model ----
(***************************************************************************)
(* MedPolicyAgent: the job orchestration of src/ScrapperAgent.py           *)
(* (HealthcarePolicyAgent): job creation, the bounded worker pool of       *)
(* process_job_queue, run_job, and the background scheduler.               *)
(*                                                                         *)
(* Threads of the program that appear here:                                *)
(*   - the main thread, which runs process_job_queue (pjq_pc);             *)
(*   - the ThreadPoolExecutor's worker threads, which run run_job;         *)
(*   - the scheduler control-loop threads started by start_scheduler;      *)
(*   - the callers of create_job / start_scheduler / stop_scheduler.       *)
(* The program takes no lock anywhere, so every statement that reads or    *)
(* writes the shared collections is a step of its own.                     *)
(*                                                                         *)
(* The scrapers a job runs are modelled in the state they keep on disk:    *)
(*   - src/humana_data_ingest.py, scrape_claims_payment: the metadata      *)
(*     file keyed by title with its publish date, and the PDF folder;      *)
(*   - src/uhc_data_ingest.py, UHCPolicyScraper: the metadata file keyed   *)
(*     by URL, and the policies and rpub_updates folders.                  *)
(*   - src/humana_ingest_2.py, HumanaPolicyDownloader: the two PDF         *)
(*     subfolders and the names derived from their file names.             *)
(* The working directory of the process, which run_humana_claims_scraper   *)
(* and run_uhc_policies_scraper change and restore, is a state of its own. *)
(* One sync is a sequence of steps: fetch, one step per candidate, end.    *)
(***************************************************************************)
EXTENDS Integers, Sequences, FiniteSets, TLC

\* ---------------------------------------------------------------- bounds
MaxJobs == 3          \* jobs created in one behaviour
MaxTime == 1          \* last value of the clock int(time.time())
MaxErrors == 2        \* largest per-run error count a scraper reports
MaxThreads == 2       \* scheduler threads started in one behaviour
MaxRegistrations == 2 \* calls of schedule_routine_jobs in one behaviour
Period == 1           \* clock units between two instants of a recurrence
MaxCandidates == 2    \* candidates one fetch returns
MaxBodyOps == 2       \* relative-path file operations in one scraper body
MaxSeparators == 1    \* separator characters between two words of a name
MaxSessions == 2      \* HumanaPolicyDownloader objects made in one behaviour
MaxListing == 3       \* policies one section's listing gives
MaxFetched == 3       \* files the browser delivers in one behaviour
NamingCap == 1        \* suffixes a capped search for a free name would try

\* ------------------------------------------------------- program constants
max_concurrent_jobs == 2

\* JobStatus (the members the code assigns)
PENDING == "pending"
RUNNING == "running"
COMPLETED == "completed"
FAILED == "failed"
JobStatus == {PENDING, RUNNING, COMPLETED, FAILED}

ScraperType == {"humana_claims", "humana_policies", "uhc_policies"}

\* The sources jobs are submitted for here, in the order of the configuration.
\* humana_policies is treated by every line modelled as the other two are.
Sources == <<"humana_claims", "uhc_policies">>

\* load_config's default configuration: every scraper enabled, humana_claims
\* daily, the others weekly; auto_schedule on.
DefaultConfig ==
    [humana_claims |-> [enabled |-> TRUE, schedule |-> "daily"],
     uhc_policies |-> [enabled |-> TRUE, schedule |-> "weekly"]]
auto_schedule == TRUE
DaysPerWeek == 7

\* job_type of a submission: the default of create_job and of the CLI
JobTypes == {"incremental"}

NoThread == 0

VARIABLES
    now,               \* int(time.time())
    jobs,              \* every ScrapingJob object created so far, by creation order
    jobs_queue,        \* self.jobs_queue: job objects (indices into jobs)
    active_jobs,       \* self.active_jobs: job_id -> job object
    completed_jobs,    \* self.completed_jobs: job objects
    future,            \* per job object: state of its future / worker
    work_queue,        \* the executor's FIFO of submitted work items
    pjq_pc,            \* the position of process_job_queue
    pjq_job,           \* process_job_queue's local job: popped, not yet submitted
    raised,            \* history: job objects whose scraper raised
    scheduler_running, \* self.scheduler_running
    scheduler_thread,  \* self.scheduler_thread (NoThread: None)
    thread_pc,         \* per scheduler thread created: "loop", "run" or "dead"
    thread_todo,       \* per scheduler thread: the due recurrences it still runs
    schedule_jobs,     \* the schedule module's registered recurrences
    caller_pc,         \* per caller of start_/stop_scheduler: its position
    caller_join,       \* per caller in stop_scheduler: the thread it joins
    fired,             \* history: <<source, instant>> -> jobs created for it
    registrations,     \* history: calls of schedule_routine_jobs so far
    config_enabled,    \* self.config['scrapers'][name]['enabled']
    create_job_result, \* history: the last call of create_job and how it ended
    metadata_file,     \* humana_policies_metadata.json: the list last written
    save_dir,          \* humana SAVE_DIR: filename -> the title whose PDF it holds
    scrape,            \* the locals of the scrape_claims_payment call in progress
    humana_job,        \* the humana_claims job run_job is running or has finished
    uhc_metadata_file, \* uhc_policies_metadata.json: its downloaded_files
    uhc_folder,        \* the UHC folders: <<folder, filename>> -> URL of the content
    scraper,           \* the UHCPolicyScraper object of the scrape in progress
    uhc_job,           \* the uhc_policies job run_job is running or has finished
    uhc_seen,          \* history: the candidates of the last uhc sync that fetched all
    cwd,               \* the process's working directory, os.getcwd()
    cwd_start,         \* history: the working directory when the drain began
    runner,            \* per run_*_scraper call in the pool: position, original_cwd
    download_folder,   \* HumanaPolicyDownloader: the PDFs, as <<subfolder, file>>
    downloader,        \* the HumanaPolicyDownloader object and its position
    stored_policies,   \* history: the names move_and_rename_file stored a file for
    sessions_run,      \* history: HumanaPolicyDownloader objects made so far
    files_fetched      \* history: files the browser has delivered so far

queueVars == <<jobs_queue, active_jobs, completed_jobs, future, work_queue,
               pjq_pc, pjq_job, raised>>
schedVars == <<scheduler_running, scheduler_thread, thread_pc, thread_todo,
               schedule_jobs,
               caller_pc, caller_join, fired, registrations>>
vars == <<now, jobs, jobs_queue, active_jobs, completed_jobs, future,
          work_queue, pjq_pc, pjq_job, raised, scheduler_running,
          scheduler_thread, thread_pc, thread_todo, schedule_jobs, caller_pc,
          caller_join,
          fired, registrations, config_enabled, create_job_result,
          metadata_file, save_dir, scrape, humana_job,
          uhc_metadata_file, uhc_folder, scraper, uhc_job, uhc_seen,
          cwd, cwd_start, runner,
          download_folder, downloader, stored_policies, sessions_run,
          files_fetched>>
configVars == <<config_enabled, create_job_result>>
humanaVars == <<metadata_file, save_dir, scrape, humana_job>>
uhcVars == <<uhc_metadata_file, uhc_folder, scraper, uhc_job, uhc_seen>>
cwdVars == <<cwd, cwd_start, runner>>
downloaderVars == <<download_folder, downloader, stored_policies, sessions_run,
                    files_fetched>>
otherVars == <<cwdVars, downloaderVars>>
syncVars == <<configVars, humanaVars, uhcVars, otherVars>>

Callers == {"main", "other"}

\* ---------------------------------------------------------------- helpers
Range(s) == {s[i] : i \in DOMAIN s}

Occurrences(s, x) == Cardinality({i \in DOMAIN s : s[i] = x})

JobObjects == 1..Len(jobs)

Terminal(j) == jobs[j].status \in {COMPLETED, FAILED}

\* ------------------------------------------------------------- create_job
\* job_id = f"{scraper_type}_{int(time.time())}"
NewJobId(scraper_type, t) == <<scraper_type, t>>

NewJob(scraper_type, job_type, t) ==
    [job_id |-> NewJobId(scraper_type, t),
     scraper_type |-> scraper_type,
     job_type |-> job_type,
     status |-> PENDING,
     errors |-> <<>>]

\* The effect of create_job on the job objects, the queue and the executor's
\* bookkeeping of the new object (it has no future yet).
CreateJobEffect(scraper_type, job_type) ==
    /\ jobs' = Append(jobs, NewJob(scraper_type, job_type, now))
    /\ jobs_queue' = Append(jobs_queue, Len(jobs) + 1)
    /\ future' = Append(future, "none")

\* create_job called by any thread other than the scheduler's (the CLI, a
\* caller of the agent object).
create_job ==
    /\ Len(jobs) < MaxJobs
    /\ \E scraper_type \in Range(Sources), job_type \in JobTypes :
          CreateJobEffect(scraper_type, job_type)
    /\ UNCHANGED <<now, active_jobs, completed_jobs, work_queue, pjq_pc, raised>>
    /\ UNCHANGED schedVars
    /\ UNCHANGED syncVars
    /\ UNCHANGED pjq_job

\* The clock advances.
Tick ==
    /\ now < MaxTime
    /\ now' = now + 1
    /\ UNCHANGED <<jobs>>
    /\ UNCHANGED queueVars
    /\ UNCHANGED schedVars
    /\ UNCHANGED syncVars

\* ------------------------------------------------------ the scrapers' results
\* What a run_*_scraper call gives run_job: a result dictionary, or an
\* exception.  run_humana_claims_scraper returns "errors": 0 (line 235);
\* run_uhc_policies_scraper passes the scraper's own error count on.
ScraperResults(scraper_type) ==
    IF scraper_type = "uhc_policies"
    THEN [kind : {"result"}, errors : 0..MaxErrors] \cup [kind : {"raise"}, errors : {0}]
    ELSE [kind : {"result", "raise"}, errors : {0}]

\* ---------------------------------------------------------------- run_job
\* job.status after the try block of run_job (lines 363 and 370).
StatusAfterRunMutant(outcome) == COMPLETED
StatusAfterRun(outcome) ==
    IF outcome.kind = "raise" THEN FAILED ELSE COMPLETED

\* job.errors after the try block of run_job (lines 360-361 and 371).
ErrorsAfterRun(errors, outcome) ==
    IF outcome.kind = "raise"
    THEN Append(errors, [kind |-> "exception", n |-> 0])
    ELSE IF outcome.errors > 0
         THEN Append(errors, [kind |-> "errors occurred", n |-> outcome.errors])
         ELSE errors

\* Whether run_job lets the scraper's exception out (it does not: the
\* except clause of line 369 catches every Exception).
RunJobPropagates(outcome) == FALSE

\* A worker thread of the executor takes the next work item.  The executor
\* has max_workers = max_concurrent_jobs threads.
worker_take ==
    /\ work_queue # <<>>
    /\ Cardinality({j \in JobObjects : future[j] \in {"taken", "running"}})
          < max_concurrent_jobs
    /\ future' = [future EXCEPT ![Head(work_queue)] = "taken"]
    /\ work_queue' = Tail(work_queue)
    /\ UNCHANGED <<now, jobs, jobs_queue, active_jobs, completed_jobs, pjq_pc, raised>>
    /\ UNCHANGED schedVars
    /\ UNCHANGED syncVars
    /\ UNCHANGED pjq_job

\* run_job, lines 341-344: the job becomes RUNNING.
run_job_begin ==
    /\ \E j \in JobObjects :
          /\ future[j] = "taken"
          /\ jobs' = [jobs EXCEPT ![j].status = RUNNING]
          /\ future' = [future EXCEPT ![j] = "running"]
    /\ UNCHANGED <<now, jobs_queue, active_jobs, completed_jobs, work_queue,
                   pjq_pc, raised>>
    /\ UNCHANGED schedVars
    /\ UNCHANGED syncVars
    /\ UNCHANGED pjq_job

\* run_job, lines 346-377: the scraper returns or raises, the job reaches
\* its final status and the future is done.
run_job_end ==
    /\ \E j \in JobObjects :
          /\ future[j] = "running"
          /\ \E outcome \in ScraperResults(jobs[j].scraper_type) :
                /\ jobs' = [jobs EXCEPT
                               ![j].status = StatusAfterRun(outcome),
                               ![j].errors = ErrorsAfterRun(@, outcome)]
                /\ future' = [future EXCEPT ![j] =
                                 IF RunJobPropagates(outcome)
                                 THEN "exception" ELSE "result"]
                /\ raised' = IF outcome.kind = "raise"
                             THEN raised \cup {j} ELSE raised
    /\ UNCHANGED <<now, jobs_queue, active_jobs, completed_jobs, work_queue,
                   pjq_pc>>
    /\ UNCHANGED schedVars
    /\ UNCHANGED syncVars
    /\ UNCHANGED pjq_job

FutureDone(j) == future[j] \in {"result", "exception"}

\* ------------------------------------------------------ process_job_queue
\* self.active_jobs[job_id] = (job, future): a Python dict keeps one entry
\* per key, at the position of the key's first insertion.
DictSet(d, job_id, j) ==
    IF \E i \in DOMAIN d : d[i].job_id = job_id
    THEN [i \in DOMAIN d |->
             IF d[i].job_id = job_id THEN [job_id |-> job_id, job |-> j] ELSE d[i]]
    ELSE Append(d, [job_id |-> job_id, job |-> j])

\* The condition of the inner while loop (line 386).
CanSubmit ==
    /\ Len(active_jobs) < max_concurrent_jobs
    /\ jobs_queue # <<>>

\* The main thread enters process_job_queue: main's loop calls it when
\* jobs_queue is not empty (lines 598-599), the other callers right after
\* create_job.
pjq_enter ==
    /\ pjq_pc = "idle"
    /\ jobs_queue # <<>>
    /\ pjq_pc' = "while_queue"
    /\ UNCHANGED <<now, jobs, jobs_queue, active_jobs, completed_jobs, future,
                   work_queue, raised>>
    /\ UNCHANGED schedVars
    /\ UNCHANGED syncVars
    /\ UNCHANGED pjq_job

\* Line 384, first operand: `self.jobs_queue or ...`.
pjq_while_queue ==
    /\ pjq_pc = "while_queue"
    /\ pjq_pc' = IF jobs_queue # <<>> THEN "submit" ELSE "while_active"
    /\ UNCHANGED <<now, jobs, jobs_queue, active_jobs, completed_jobs, future,
                   work_queue, raised>>
    /\ UNCHANGED schedVars
    /\ UNCHANGED syncVars
    /\ UNCHANGED pjq_job

\* Line 384, second operand: `... or self.active_jobs`.
pjq_while_active ==
    /\ pjq_pc = "while_active"
    /\ pjq_pc' = IF active_jobs # <<>> THEN "submit" ELSE "shutdown"
    /\ UNCHANGED <<now, jobs, jobs_queue, active_jobs, completed_jobs, future,
                   work_queue, raised>>
    /\ UNCHANGED schedVars
    /\ UNCHANGED syncVars
    /\ UNCHANGED pjq_job

\* No job popped and not yet entered in active_jobs.
NoJob == 0

\* Lines 386-387: the inner while loop's condition holds and the head of
\* jobs_queue is popped into the local variable job.
pjq_pop ==
    /\ pjq_pc = "submit"
    /\ CanSubmit
    /\ jobs_queue' = Tail(jobs_queue)
    /\ pjq_job' = Head(jobs_queue)
    /\ pjq_pc' = "insert"
    /\ UNCHANGED <<now, jobs, active_jobs, completed_jobs, future, work_queue,
                   raised>>
    /\ UNCHANGED schedVars
    /\ UNCHANGED syncVars

\* Lines 388-389: the popped job is submitted to the executor and entered in
\* active_jobs under its job_id.
pjq_submit ==
    /\ pjq_pc = "insert"
    /\ LET j == pjq_job IN
          /\ work_queue' = Append(work_queue, j)
          /\ future' = [future EXCEPT ![j] = "queued"]
          /\ active_jobs' = DictSet(active_jobs, jobs[j].job_id, j)
    /\ pjq_job' = NoJob
    /\ pjq_pc' = "submit"
    /\ UNCHANGED <<now, jobs, jobs_queue, completed_jobs, raised>>
    /\ UNCHANGED schedVars
    /\ UNCHANGED syncVars

\* The status process_job_queue leaves on a job it retires (lines 395-401).
RetireStatusMutant(status, fut) == FAILED
RetireStatus(status, fut) ==
    IF fut = "exception" THEN FAILED ELSE status

\* The errors process_job_queue leaves on a job it retires (line 400).
RetireErrors(errors, fut) ==
    IF fut = "exception"
    THEN Append(errors, [kind |-> "exception", n |-> 0])
    ELSE errors

\* Lines 391-410: the inner loop's condition is false; every active job
\* whose future is done is appended to completed_jobs and deleted from
\* active_jobs; then the loop sleeps and tests its condition again.
pjq_collect ==
    /\ pjq_pc = "submit"
    /\ ~CanSubmit
    /\ LET done == {i \in DOMAIN active_jobs : FutureDone(active_jobs[i].job)}
           doneJobs == {active_jobs[i].job : i \in done}
           keep == SelectSeq(active_jobs, LAMBDA e : ~FutureDone(e.job))
           gone == SelectSeq(active_jobs, LAMBDA e : FutureDone(e.job))
       IN
          /\ completed_jobs' = completed_jobs \o
                                  [i \in 1..Len(gone) |-> gone[i].job]
          /\ active_jobs' = keep
          /\ jobs' = [j \in DOMAIN jobs |->
                         IF j \in doneJobs
                         THEN [jobs[j] EXCEPT
                                  !.status = RetireStatus(@, future[j]),
                                  !.errors = RetireErrors(@, future[j])]
                         ELSE jobs[j]]
    /\ pjq_pc' = "while_queue"
    /\ UNCHANGED <<now, jobs_queue, future, work_queue, raised>>
    /\ UNCHANGED schedVars
    /\ UNCHANGED syncVars
    /\ UNCHANGED pjq_job

\* Line 383, leaving the with block: ThreadPoolExecutor.__exit__ is
\* shutdown(wait=True), which returns once every submitted work item has run.
pjq_return ==
    /\ pjq_pc = "shutdown"
    /\ \A j \in JobObjects : future[j] \in {"none", "result", "exception"}
    /\ pjq_pc' = "idle"
    /\ UNCHANGED <<now, jobs, jobs_queue, active_jobs, completed_jobs, future,
                   work_queue, raised>>
    /\ UNCHANGED schedVars
    /\ UNCHANGED syncVars
    /\ UNCHANGED pjq_job

\* --------------------------------------------------------------- scheduler
\* The clock units between two scheduled instants of a scraper's recurrence
\* (lines 426-433: every().day.at(...) or every().monday.at(...)).
PeriodOf(scraper_name) ==
    IF DefaultConfig[scraper_name].schedule = "daily"
    THEN Period ELSE DaysPerWeek * Period

\* The first scheduled instant after t: the instants of a recurrence are the
\* multiples of its period.
NextInstant(t, period) == ((t \div period) + 1) * period

\* The recurrences one call of schedule_routine_jobs registers with the
\* schedule module: one new entry per enabled scraper, appended to whatever
\* is registered already (lines 419-437).
NewRegistrations(t) ==
    LET enabled == SelectSeq(Sources, LAMBDA n : DefaultConfig[n].enabled) IN
    [i \in 1..Len(enabled) |->
        [scraper_name |-> enabled[i],
         next_run |-> NextInstant(t, PeriodOf(enabled[i]))]]

RegistrationsAfter(registered, t) == registered \o NewRegistrations(t)

schedule_routine_jobs ==
    /\ auto_schedule
    /\ registrations < MaxRegistrations
    /\ registrations' = registrations + 1
    /\ schedule_jobs' = RegistrationsAfter(schedule_jobs, now)
    /\ UNCHANGED <<now, jobs>>
    /\ UNCHANGED queueVars
    /\ UNCHANGED <<scheduler_running, scheduler_thread, thread_pc, thread_todo,
                   caller_pc, caller_join, fired>>
    /\ UNCHANGED syncVars

\* start_scheduler, lines 448-449: the caller tests self.scheduler_running
\* and returns when it is set.
start_scheduler_test ==
    /\ \E c \in Callers :
          /\ caller_pc[c] = "idle"
          /\ caller_pc' = [caller_pc EXCEPT ![c] =
                              IF scheduler_running THEN "idle" ELSE "start_set"]
    /\ UNCHANGED <<now, jobs>>
    /\ UNCHANGED queueVars
    /\ UNCHANGED <<scheduler_running, scheduler_thread, thread_pc, thread_todo,
                   schedule_jobs, caller_join, fired, registrations>>
    /\ UNCHANGED syncVars

\* start_scheduler, line 451.
start_scheduler_set ==
    /\ \E c \in Callers :
          /\ caller_pc[c] = "start_set"
          /\ caller_pc' = [caller_pc EXCEPT ![c] = "start_thread"]
    /\ scheduler_running' = TRUE
    /\ UNCHANGED <<now, jobs>>
    /\ UNCHANGED queueVars
    /\ UNCHANGED <<scheduler_thread, thread_pc, thread_todo, schedule_jobs,
                   caller_join, fired, registrations>>
    /\ UNCHANGED syncVars

\* start_scheduler, lines 458-459: a new thread runs run_scheduler and
\* self.scheduler_thread names it.
start_scheduler_thread ==
    /\ Len(thread_pc) < MaxThreads
    /\ \E c \in Callers :
          /\ caller_pc[c] = "start_thread"
          /\ caller_pc' = [caller_pc EXCEPT ![c] = "idle"]
    /\ thread_pc' = Append(thread_pc, "loop")
    /\ thread_todo' = Append(thread_todo, <<>>)
    /\ scheduler_thread' = Len(thread_pc) + 1
    /\ UNCHANGED <<now, jobs>>
    /\ UNCHANGED queueVars
    /\ UNCHANGED <<scheduler_running, schedule_jobs, caller_join, fired,
                   registrations>>
    /\ UNCHANGED syncVars

\* stop_scheduler, line 465.
stop_scheduler_clear ==
    /\ \E c \in Callers :
          /\ caller_pc[c] = "idle"
          /\ caller_pc' = [caller_pc EXCEPT ![c] = "stop_join"]
    /\ scheduler_running' = FALSE
    /\ UNCHANGED <<now, jobs>>
    /\ UNCHANGED queueVars
    /\ UNCHANGED <<scheduler_thread, thread_pc, thread_todo, schedule_jobs,
                   caller_join, fired, registrations>>
    /\ UNCHANGED syncVars

\* stop_scheduler, lines 466-467: with no thread it returns; otherwise it
\* joins the thread self.scheduler_thread names at that moment.
stop_scheduler_join ==
    /\ \E c \in Callers :
          /\ caller_pc[c] = "stop_join"
          /\ IF scheduler_thread = NoThread
             THEN /\ caller_pc' = [caller_pc EXCEPT ![c] = "idle"]
                  /\ UNCHANGED caller_join
             ELSE /\ caller_pc' = [caller_pc EXCEPT ![c] = "joining"]
                  /\ caller_join' = [caller_join EXCEPT ![c] = scheduler_thread]
    /\ UNCHANGED <<now, jobs>>
    /\ UNCHANGED queueVars
    /\ UNCHANGED <<scheduler_running, scheduler_thread, thread_pc, thread_todo,
                   schedule_jobs, fired, registrations>>
    /\ UNCHANGED syncVars

\* stop_scheduler, line 467-468: join returns once the joined thread has
\* ended, and stop_scheduler returns.
stop_scheduler_return ==
    /\ \E c \in Callers :
          /\ caller_pc[c] = "joining"
          /\ thread_pc[caller_join[c]] = "dead"
          /\ caller_pc' = [caller_pc EXCEPT ![c] = "idle"]
          /\ caller_join' = [caller_join EXCEPT ![c] = NoThread]
    /\ UNCHANGED <<now, jobs>>
    /\ UNCHANGED queueVars
    /\ UNCHANGED <<scheduler_running, scheduler_thread, thread_pc, thread_todo,
                   schedule_jobs, fired, registrations>>
    /\ UNCHANGED syncVars

\* schedule.run_pending first collects the registered recurrences that are
\* due (next_run <= now), then runs them one after another.
DueRegistrations(registered, t) ==
    LET idx == [i \in 1..Len(registered) |-> i] IN
    SelectSeq(idx, LAMBDA i : registered[i].next_run <= t)

\* run_scheduler, lines 454-455: the loop tests self.scheduler_running; when
\* it is clear the thread ends, otherwise run_pending collects what is due.
run_scheduler_loop ==
    /\ \E t \in DOMAIN thread_pc :
          /\ thread_pc[t] = "loop"
          /\ IF scheduler_running
             THEN LET due == DueRegistrations(schedule_jobs, now) IN
                  /\ thread_todo' = [thread_todo EXCEPT ![t] =
                        [i \in 1..Len(due) |->
                            [registration |-> due[i],
                             instant |-> schedule_jobs[due[i]].next_run]]]
                  /\ thread_pc' = [thread_pc EXCEPT ![t] =
                                      IF due = <<>> THEN "loop" ELSE "run"]
             ELSE /\ thread_pc' = [thread_pc EXCEPT ![t] = "dead"]
                  /\ UNCHANGED thread_todo
    /\ UNCHANGED <<now, jobs>>
    /\ UNCHANGED queueVars
    /\ UNCHANGED <<scheduler_running, scheduler_thread, schedule_jobs,
                   caller_pc, caller_join, fired, registrations>>
    /\ UNCHANGED syncVars

\* The jobs created so far for one scheduled instant of one scraper.
FiredCount(key) == IF key \in DOMAIN fired THEN fired[key] ELSE 0

\* run_pending runs one due recurrence: _schedule_job calls create_job with
\* job_type 'incremental' (lines 441-443), and the schedule module moves the
\* recurrence to its next instant.  After the last one the loop sleeps and
\* tests self.scheduler_running again (line 456).
run_scheduler_job ==
    /\ Len(jobs) < MaxJobs
    /\ \E t \in DOMAIN thread_pc :
          /\ thread_pc[t] = "run"
          /\ LET item == Head(thread_todo[t])
                 reg == schedule_jobs[item.registration]
                 key == <<reg.scraper_name, item.instant>>
             IN
                /\ CreateJobEffect(reg.scraper_name, "incremental")
                /\ schedule_jobs' = [schedule_jobs EXCEPT
                      ![item.registration].next_run =
                          NextInstant(now, PeriodOf(reg.scraper_name))]
                /\ fired' = [k \in DOMAIN fired \cup {key} |->
                                IF k = key THEN FiredCount(key) + 1 ELSE fired[k]]
                /\ thread_todo' = [thread_todo EXCEPT ![t] = Tail(@)]
                /\ thread_pc' = [thread_pc EXCEPT ![t] =
                                    IF Tail(thread_todo[t]) = <<>>
                                    THEN "loop" ELSE "run"]
    /\ UNCHANGED <<now, active_jobs, completed_jobs, work_queue, pjq_pc, raised>>
    /\ UNCHANGED <<scheduler_running, scheduler_thread, caller_pc, caller_join,
                   registrations>>
    /\ UNCHANGED syncVars
    /\ UNCHANGED pjq_job

\* ------------------------------------------------- create_job's callers
\* What a caller may pass as scraper_type: a member of ScraperType, or a
\* string that is none of them.
RequestedTypes == ScraperType \cup {"cigna_policies"}

NoCall == [scraper_type |-> "", enabled |-> FALSE, raised |-> FALSE,
           appended |-> FALSE]

\* Line 177: the test that makes create_job raise ValueError.  It is the only
\* test create_job makes: self.config is read on line 181 for output_folder
\* alone.
CreateJobRaises(scraper_type) == scraper_type \notin ScraperType

\* The 'enabled' entry of the scraper's configuration; a name that is not
\* configured is not enabled.
Enabled(scraper_type) ==
    IF scraper_type \in DOMAIN config_enabled
    THEN config_enabled[scraper_type] ELSE FALSE

\* create_job called with any string (the CLI, a caller of the agent object),
\* under any configuration.  create_job_result remembers the call.
create_job_call ==
    /\ Len(jobs) < MaxJobs
    /\ \E scraper_type \in RequestedTypes, job_type \in JobTypes :
          IF CreateJobRaises(scraper_type)
          THEN /\ create_job_result' =
                     [scraper_type |-> scraper_type,
                      enabled |-> Enabled(scraper_type),
                      raised |-> TRUE, appended |-> FALSE]
               /\ UNCHANGED <<jobs, jobs_queue, future>>
          ELSE /\ CreateJobEffect(scraper_type, job_type)
               /\ create_job_result' =
                     [scraper_type |-> scraper_type,
                      enabled |-> Enabled(scraper_type),
                      raised |-> FALSE, appended |-> TRUE]
    /\ UNCHANGED <<now, active_jobs, completed_jobs, work_queue, pjq_pc, raised>>
    /\ UNCHANGED schedVars
    /\ UNCHANGED <<config_enabled, humanaVars, uhcVars, otherVars>>
    /\ UNCHANGED pjq_job

\* -------------------------------------------------- the fetchers' candidates
\* Every sequence over S of length at most n.
SeqsUpTo(S, n) == UNION {[1..k -> S] : k \in 0..n}

\* ------------------------------------- humana_data_ingest (title + date)
\* A cleaned policy title, as the three things the code distinguishes in it:
\* short, its first 30 characters; md5, the first 8 hex digits of its MD5
\* digest; rest, whatever else tells two titles apart.
Titles ==
    {[short |-> "Ambulance", md5 |-> "0f3a", rest |-> "a"],
     [short |-> "Ambulance", md5 |-> "0f3a", rest |-> "b"],
     [short |-> "Bariatric", md5 |-> "77c1", rest |-> "a"]}

\* clean_date's output for the dates the page shows.
PublishDates == {"2025-07-09", "2025-08-01"}

\* make_safe_filename: f"{title[:30].strip()}_{md5(title)[:8]}.pdf".
make_safe_filename(title) == <<title.short, title.md5>>

\* One element of policy_entries (lines 112-117); its filename is
\* make_safe_filename of its title, its url is the entry's own.
PolicyEntries == [title : Titles, publish_date : PublishDates]

\* load_previous_metadata: {entry["title"]: entry for entry in json.load(f)},
\* so of two entries with one title the later one stays; {} without the file.
load_previous_metadata(file) ==
    [t \in {file[k].title : k \in DOMAIN file} |->
        file[CHOOSE k \in DOMAIN file :
                /\ file[k].title = t
                /\ \A m \in DOMAIN file : file[m].title = t => m <= k]]

\* The titles that have a record in the persisted metadata.
StoredTitles(file) == DOMAIN load_previous_metadata(file)

\* Lines 145 and 151-152: the two tests against old_metadata.
IsNew(title, old) == title \notin DOMAIN old
IsUpdatedMutant(title, publish_date, old) == FALSE
IsUpdated(title, publish_date, old) ==
    /\ title \in DOMAIN old
    /\ old[title].publish_date # publish_date

\* Line 165: os.path.exists(filepath).
FileExists(dir, filename) == filename \in DOMAIN dir

\* open(filepath, "wb") and write (lines 173-174): the file is created or
\* replaced, and holds the PDF of this title.
WriteFile(dir, filename, owner) ==
    [f \in DOMAIN dir \cup {filename} |-> IF f = filename THEN owner ELSE dir[f]]

NoDict == [t \in {} |-> 0]

NoScrape ==
    [pc |-> "idle", policy_entries |-> <<>>, old_metadata |-> NoDict, i |-> 1,
     downloaded |-> 0, skipped |-> 0, updated |-> 0,
     new_policies |-> 0, updated_policies |-> 0, log |-> <<>>]

\* A job object as create_job makes it, in the fields run_job fills in.
NewSyncJob ==
    [status |-> PENDING, files_downloaded |-> 0, files_skipped |-> 0,
     errors |-> <<>>]

\* run_job (line 343) and run_humana_claims_scraper up to line 133 of
\* scrape_claims_payment, for a new humana_claims job: the page gives its
\* policy_entries, the old metadata is loaded, and the metadata file is
\* replaced by the entries just fetched (lines 124-129).
scrape_begin ==
    /\ scrape.pc = "idle"
    /\ \E entries \in SeqsUpTo(PolicyEntries, MaxCandidates) :
          /\ scrape' = [NoScrape EXCEPT
                           !.pc = "loop",
                           !.policy_entries = entries,
                           !.old_metadata = load_previous_metadata(metadata_file)]
          /\ metadata_file' = entries
    /\ humana_job' = [NewSyncJob EXCEPT !.status = RUNNING]
    /\ UNCHANGED save_dir
    /\ UNCHANGED <<now, jobs>>
    /\ UNCHANGED queueVars
    /\ UNCHANGED schedVars
    /\ UNCHANGED <<configVars, uhcVars, otherVars>>

\* The same call when the browser raises (lines 82-119): the exception leaves
\* scrape_claims_payment and run_humana_claims_scraper (line 242) and is
\* caught by run_job (lines 369-371).
scrape_fetch_fails ==
    /\ scrape.pc = "idle"
    /\ LET outcome == [kind |-> "raise", errors |-> 0] IN
       humana_job' = [NewSyncJob EXCEPT
                         !.status = StatusAfterRun(outcome),
                         !.errors = ErrorsAfterRun(@, outcome)]
    /\ UNCHANGED <<metadata_file, save_dir, scrape>>
    /\ UNCHANGED <<now, jobs>>
    /\ UNCHANGED queueVars
    /\ UNCHANGED schedVars
    /\ UNCHANGED <<configVars, uhcVars, otherVars>>

\* One iteration of the loop of lines 135-181.  ok: requests.get and
\* raise_for_status succeed.  The log entry remembers what the iteration saw
\* and did.
scrape_policy ==
    /\ scrape.pc = "loop"
    /\ scrape.i <= Len(scrape.policy_entries)
    /\ LET policy == scrape.policy_entries[scrape.i]
           filename == make_safe_filename(policy.title)
           new == IsNew(policy.title, scrape.old_metadata)
           upd == IsUpdated(policy.title, policy.publish_date, scrape.old_metadata)
           missing == ~FileExists(save_dir, filename)
           needs_download == new \/ upd \/ missing
       IN \E ok \in IF needs_download THEN BOOLEAN ELSE {FALSE} :
             /\ save_dir' = IF needs_download /\ ok
                            THEN WriteFile(save_dir, filename, policy.title)
                            ELSE save_dir
             /\ scrape' = [scrape EXCEPT
                   !.i = @ + 1,
                   !.new_policies = IF new THEN @ + 1 ELSE @,
                   !.updated_policies = IF upd THEN @ + 1 ELSE @,
                   !.updated = IF upd THEN @ + 1 ELSE @,
                   !.downloaded = IF needs_download /\ ok THEN @ + 1 ELSE @,
                   !.skipped = IF needs_download THEN @ ELSE @ + 1,
                   !.log = Append(@,
                              [title |-> policy.title,
                               publish_date |-> policy.publish_date,
                               new |-> new, updated |-> upd, missing |-> missing,
                               needs_download |-> needs_download, ok |-> ok,
                               overwrote |-> needs_download /\ ok /\ ~missing
                                             /\ save_dir[filename] # policy.title])]
    /\ UNCHANGED <<metadata_file, humana_job>>
    /\ UNCHANGED <<now, jobs>>
    /\ UNCHANGED queueVars
    /\ UNCHANGED schedVars
    /\ UNCHANGED <<configVars, uhcVars, otherVars>>

\* The result dictionary of run_humana_claims_scraper (lines 215-236):
\* downloaded is the length of the two lists of the changes file, skipped the
\* length of the metadata file less that, errors 0.
HumanaResult(changes_new, changes_updated, metadata) ==
    [kind |-> "result",
     downloaded |-> changes_new + changes_updated,
     skipped |-> Len(metadata) - (changes_new + changes_updated),
     errors |-> 0]

\* The fields run_job gives the job from a result dictionary (lines 358-363).
JobAfterResult(job, result) ==
    [job EXCEPT !.files_downloaded = result.downloaded,
                !.files_skipped = result.skipped,
                !.errors = ErrorsAfterRun(@, result),
                !.status = StatusAfterRun(result)]

\* The loop is over: the changes report is written (lines 183-186),
\* run_humana_claims_scraper reads both files back, and run_job fills in the
\* job.
scrape_end ==
    /\ scrape.pc = "loop"
    /\ scrape.i > Len(scrape.policy_entries)
    /\ humana_job' = JobAfterResult(humana_job,
                        HumanaResult(scrape.new_policies, scrape.updated_policies,
                                     metadata_file))
    /\ scrape' = NoScrape
    /\ UNCHANGED <<metadata_file, save_dir>>
    /\ UNCHANGED <<now, jobs>>
    /\ UNCHANGED queueVars
    /\ UNCHANGED schedVars
    /\ UNCHANGED <<configVars, uhcVars, otherVars>>

\* ------------------------------------------- uhc_data_ingest (URL-keyed)
\* A PDF URL, as the two things the code distinguishes in it: name, its last
\* path segment; dir, everything before that.
UhcPolicyUrls ==
    {[dir |-> "medical", name |-> "botulinum.pdf"],
     [dir |-> "drug", name |-> "botulinum.pdf"],
     [dir |-> "medical", name |-> "mri.pdf"]}

\* RPUB_BASE_URL.format(month, year), for the month probed here.
RpubUrls == {[dir |-> "rpub", name |-> "UHC-COMM-RPUB-January-2025.pdf"]}

\* Line 72: filename = url.split("/")[-1].
Filename(url) == url.name

\* fetch_uhc_policy_links returns list(set(pdf_links)): no link twice, in
\* any order.
LinkLists ==
    {l \in SeqsUpTo(UhcPolicyUrls, MaxCandidates) :
        \A a, b \in DOMAIN l : a # b => l[a] # l[b]}

NoScraper ==
    [pc |-> "idle", metadata |-> NoDict, pdf_links |-> <<>>, i |-> 1,
     policies_downloaded |-> 0, rpub_downloaded |-> 0,
     policies_skipped |-> 0, rpub_skipped |-> 0, errors |-> 0,
     fetch_failed |-> FALSE, log |-> <<>>]

\* Lines 66-68.
is_already_downloaded(sc, url) == url \in DOMAIN sc.metadata

\* Lines 119-132: self.metadata["downloaded_files"][url] = {...}.
mark_as_downloaded(sc, url, filename, file_type) ==
    [sc EXCEPT !.metadata =
        [u \in DOMAIN sc.metadata \cup {url} |->
            IF u = url THEN [filename |-> filename, type |-> file_type]
            ELSE sc.metadata[u]]]

\* download_pdf (lines 70-117) on the scraper object sc and the folders
\* files.  ok: requests.get answers 200.  The log entry remembers what the
\* call saw and did.
download_pdf(sc, files, url, folder, file_type, ok) ==
    LET filename == Filename(url)
        filepath == <<folder, filename>>
        entry(did) ==
            [url |-> url,
             in_store |-> url \in DOMAIN uhc_metadata_file,
             file_exists |-> filepath \in DOMAIN files,
             taken |-> filepath \in DOMAIN files /\ files[filepath] # url,
             did |-> did]
        logged(sc2, did) == [sc2 EXCEPT !.log = Append(@, entry(did))]
    IN IF is_already_downloaded(sc, url)
       THEN [scraper |-> logged(
                 IF file_type = "policy"
                 THEN [sc EXCEPT !.policies_skipped = @ + 1]
                 ELSE [sc EXCEPT !.rpub_skipped = @ + 1], "skipped"),
             files |-> files]
       ELSE IF FileExists(files, filepath)
       THEN [scraper |-> logged(
                 mark_as_downloaded(sc, url, filename, file_type), "marked"),
             files |-> files]
       ELSE IF ok
       THEN [scraper |-> logged(
                 LET marked == mark_as_downloaded(sc, url, filename, file_type) IN
                 IF file_type = "policy"
                 THEN [marked EXCEPT !.policies_downloaded = @ + 1]
                 ELSE [marked EXCEPT !.rpub_downloaded = @ + 1], "downloaded"),
             files |-> WriteFile(files, filepath, url)]
       ELSE [scraper |-> logged([sc EXCEPT !.errors = @ + 1], "failed"),
             files |-> files]

\* run_job (line 343), run_uhc_policies_scraper up to line 307, the
\* constructor loading the metadata (lines 35, 46-58) and download_all_policies
\* fetching the links (line 168).  When the fetch raises, the except clause of
\* lines 177-180 appends one error and the scrape goes on with the RPUB files.
uhc_begin ==
    /\ scraper.pc = "idle"
    /\ \/ \E links \in LinkLists :
             scraper' = [NoScraper EXCEPT
                            !.pc = IF links = <<>> THEN "rpub" ELSE "policies",
                            !.metadata = uhc_metadata_file,
                            !.pdf_links = links]
       \/ scraper' = [NoScraper EXCEPT
                         !.pc = "rpub",
                         !.metadata = uhc_metadata_file,
                         !.errors = 1,
                         !.fetch_failed = TRUE]
    /\ uhc_job' = [NewSyncJob EXCEPT !.status = RUNNING]
    /\ UNCHANGED <<uhc_metadata_file, uhc_folder, uhc_seen>>
    /\ UNCHANGED <<now, jobs>>
    /\ UNCHANGED queueVars
    /\ UNCHANGED schedVars
    /\ UNCHANGED <<configVars, humanaVars, otherVars>>

\* One iteration of the loop of lines 171-173.
uhc_download_policy ==
    /\ scraper.pc = "policies"
    /\ \E ok \in BOOLEAN :
          LET r == download_pdf(scraper, uhc_folder,
                                scraper.pdf_links[scraper.i], "policies",
                                "policy", ok)
          IN /\ scraper' = [r.scraper EXCEPT
                               !.i = @ + 1,
                               !.pc = IF scraper.i = Len(scraper.pdf_links)
                                      THEN "rpub" ELSE "policies"]
             /\ uhc_folder' = r.files
    /\ UNCHANGED <<uhc_metadata_file, uhc_job, uhc_seen>>
    /\ UNCHANGED <<now, jobs>>
    /\ UNCHANGED queueVars
    /\ UNCHANGED schedVars
    /\ UNCHANGED <<configVars, humanaVars, otherVars>>

\* The job run_job leaves when the scraper call raised (lines 369-371).
JobAfterRaise(job) ==
    LET outcome == [kind |-> "raise", errors |-> 0] IN
    [job EXCEPT !.status = StatusAfterRun(outcome),
                !.errors = ErrorsAfterRun(@, outcome)]

\* download_rpub_updates (lines 182-219) for one month: requests.head finds
\* the file and download_pdf handles it, or finds none, or raises.  Nothing
\* catches that exception before run_job, so save_metadata is not reached.
uhc_rpub ==
    /\ scraper.pc = "rpub"
    /\ \E url \in RpubUrls, head \in {"200", "404", "raises"}, ok \in BOOLEAN :
          LET r == download_pdf(scraper, uhc_folder, url, "rpub_updates",
                                "rpub", ok)
          IN CASE head = "200" ->
                    /\ scraper' = [r.scraper EXCEPT !.pc = "save"]
                    /\ uhc_folder' = r.files
                    /\ UNCHANGED <<uhc_job, uhc_seen>>
               [] head = "404" ->
                    /\ scraper' = [scraper EXCEPT !.pc = "save"]
                    /\ UNCHANGED <<uhc_folder, uhc_job, uhc_seen>>
               [] head = "raises" ->
                    /\ scraper' = NoScraper
                    /\ uhc_job' = JobAfterRaise(uhc_job)
                    /\ uhc_seen' = <<>>
                    /\ UNCHANGED uhc_folder
    /\ UNCHANGED uhc_metadata_file
    /\ UNCHANGED <<now, jobs>>
    /\ UNCHANGED queueVars
    /\ UNCHANGED schedVars
    /\ UNCHANGED <<configVars, humanaVars, otherVars>>

\* The dictionary run_full_scrape returns (lines 255-266).
run_full_scrape_result(sc) ==
    [downloaded |-> sc.policies_downloaded + sc.rpub_downloaded,
     policies |-> sc.policies_downloaded,
     rpub |-> sc.rpub_downloaded,
     errors |-> sc.errors]

\* The result dictionary of run_uhc_policies_scraper (lines 312-316).
UhcResult(result) ==
    [kind |-> "result",
     downloaded |-> result.downloaded,
     skipped |-> result.policies + result.rpub - result.downloaded,
     errors |-> result.errors]

\* The candidates a uhc sync has handled.
Candidates(sc) == {sc.log[k].url : k \in DOMAIN sc.log}

\* save_metadata (lines 60-64, called on line 234), the result of
\* run_full_scrape, and run_job filling in the job.
uhc_end ==
    /\ scraper.pc = "save"
    /\ uhc_metadata_file' = scraper.metadata
    /\ uhc_job' = JobAfterResult(uhc_job, UhcResult(run_full_scrape_result(scraper)))
    /\ uhc_seen' = IF scraper.fetch_failed \/ scraper.errors > 0
                   THEN <<>> ELSE <<Candidates(scraper)>>
    /\ scraper' = NoScraper
    /\ UNCHANGED uhc_folder
    /\ UNCHANGED <<now, jobs>>
    /\ UNCHANGED queueVars
    /\ UNCHANGED schedVars
    /\ UNCHANGED <<configVars, humanaVars, otherVars>>

\* Between two syncs a file of the UHC folders is removed by something other
\* than the scraper (the folders are ordinary directories; line 85 tests
\* them again in every call).
uhc_file_removed ==
    /\ scraper.pc = "idle"
    /\ \E filepath \in DOMAIN uhc_folder :
          uhc_folder' = [f \in DOMAIN uhc_folder \ {filepath} |-> uhc_folder[f]]
    /\ UNCHANGED <<uhc_metadata_file, scraper, uhc_job, uhc_seen>>
    /\ UNCHANGED <<now, jobs>>
    /\ UNCHANGED queueVars
    /\ UNCHANGED schedVars
    /\ UNCHANGED <<configVars, humanaVars, otherVars>>

\* ------------------------------------- the scrapers' working directory
\* The directories the process can be in: the agent's script_dir (line 73),
\* and the directory the process was launched from.
script_dir == "script_dir"
Directories == {script_dir, "launch_dir"}
NoDir == "unbound"

\* The run_*_scraper calls that change the working directory.
Runners == {"humana_claims", "uhc_policies"}

\* One such call: its position, its local original_cwd, the relative-path
\* file operations its body has made and the directories they resolved in.
NoRunner ==
    [pc |-> "idle", original_cwd |-> NoDir, ops |-> 0, resolved |-> {},
     outcome |-> "none"]

\* process_job_queue submits a humana_claims and a uhc_policies job
\* (lines 386-389); both run in the pool of max_concurrent_jobs workers.
drain_begin ==
    /\ \A w \in Runners : runner[w].pc \in {"idle", "done"}
    /\ runner' = [w \in Runners |-> [NoRunner EXCEPT !.pc = "submitted"]]
    /\ cwd_start' = cwd
    /\ UNCHANGED cwd
    /\ UNCHANGED <<now, jobs>>
    /\ UNCHANGED queueVars
    /\ UNCHANGED schedVars
    /\ UNCHANGED <<configVars, humanaVars, uhcVars, downloaderVars>>

\* Lines 202 and 295: original_cwd = os.getcwd().
runner_getcwd(w) ==
    /\ runner[w].pc = "submitted"
    /\ runner' = [runner EXCEPT ![w].original_cwd = cwd, ![w].pc = "chdir"]
    /\ UNCHANGED <<cwd, cwd_start>>
    /\ UNCHANGED <<now, jobs>>
    /\ UNCHANGED queueVars
    /\ UNCHANGED schedVars
    /\ UNCHANGED <<configVars, humanaVars, uhcVars, downloaderVars>>

\* Lines 203 and 296: os.chdir(self.script_dir).
runner_chdir(w) ==
    /\ runner[w].pc = "chdir"
    /\ cwd' = script_dir
    /\ runner' = [runner EXCEPT ![w].pc = "body"]
    /\ UNCHANGED cwd_start
    /\ UNCHANGED <<now, jobs>>
    /\ UNCHANGED queueVars
    /\ UNCHANGED schedVars
    /\ UNCHANGED <<configVars, humanaVars, uhcVars, downloaderVars>>

\* The scraper body (lines 208-226 and 298-306) opens a file by a relative
\* path: it resolves in the working directory of that moment.
runner_body(w) ==
    /\ runner[w].pc = "body"
    /\ runner[w].ops < MaxBodyOps
    /\ runner' = [runner EXCEPT ![w].ops = @ + 1,
                                ![w].resolved = @ \cup {cwd}]
    /\ UNCHANGED <<cwd, cwd_start>>
    /\ UNCHANGED <<now, jobs>>
    /\ UNCHANGED queueVars
    /\ UNCHANGED schedVars
    /\ UNCHANGED <<configVars, humanaVars, uhcVars, downloaderVars>>

\* The body is over, by return (lines 229 and 309) or by an exception
\* (lines 240 and 319): os.chdir(original_cwd).
runner_restore(w) ==
    /\ runner[w].pc = "body"
    /\ cwd' = runner[w].original_cwd
    /\ \E outcome \in {"return", "raise"} :
          runner' = [runner EXCEPT ![w].pc = "done", ![w].outcome = outcome]
    /\ UNCHANGED cwd_start
    /\ UNCHANGED <<now, jobs>>
    /\ UNCHANGED queueVars
    /\ UNCHANGED schedVars
    /\ UNCHANGED <<configVars, humanaVars, uhcVars, downloaderVars>>

\* ------------------------------ humana_ingest_2 (normalized file names)
\* A policy name or a file name is a sequence of characters; ".pdf" is one
\* element of a file name.
PdfExt == ".pdf"
DigitChars == <<"0", "1", "2", "3", "4", "5", "6", "7", "8", "9">>
IsDigit(c) == \E d \in DOMAIN DigitChars : DigitChars[d] = c

\* The members, among the characters used here, of the class
\* [<>:"/\\|?*,(R)(TM)] of lines 194 and 264, of \w and of \s.
IsSpecial(c) == c = ","
IsWord(c) == c \in {"a", "_"} \/ IsDigit(c)
IsSpace(c) == c = " "

\* str.strip().
RECURSIVE LStrip(_)
LStrip(str) ==
    IF str # <<>> /\ IsSpace(Head(str)) THEN LStrip(Tail(str)) ELSE str

RECURSIVE RStrip(_)
RStrip(str) ==
    IF str # <<>> /\ IsSpace(str[Len(str)])
    THEN RStrip(SubSeq(str, 1, Len(str) - 1))
    ELSE str

Strip(str) == LStrip(RStrip(str))

\* The names get_policies can return (lines 162-184): link.text.strip(), not
\* empty.  Two words with up to MaxSeparators separators between them, one
\* name that ends in a number, and one of 201 characters.
Separators == {" ", ",", "_"}
NumberedName == <<"a", " ", "1">>
LongName == [i \in 1..201 |-> "a"]
Names ==
    {<<"a">> \o mid \o <<"a">> : mid \in SeqsUpTo(Separators, MaxSeparators)}
       \cup {NumberedName, LongName}

\* f"{counter}".
RECURSIVE CounterText(_)
CounterText(n) ==
    IF n < 10 THEN <<DigitChars[n + 1]>>
    ELSE CounterText(n \div 10) \o <<DigitChars[(n % 10) + 1]>>

\* clean_name[:200] of lines 265-266 and clean_name[:190] of line 274.
MaxCleanLen == 200
MaxPartLen == 190

\* re.sub(r'[<>:"/\\|?*,(R)(TM)]', '_', policy_name).replace(' ', '_')
\* (lines 194 and 264).
Underscored(policy_name) ==
    [i \in DOMAIN policy_name |->
        IF IsSpecial(policy_name[i]) \/ policy_name[i] = " "
        THEN "_" ELSE policy_name[i]]

\* Lines 264-266: the clean filename of move_and_rename_file.
CleanName(policy_name) ==
    LET clean_name == Underscored(policy_name)
    IN  IF Len(clean_name) > MaxCleanLen
        THEN SubSeq(clean_name, 1, MaxCleanLen) ELSE clean_name

\* Line 274: the part of the clean name a suffix is put on.
NamePart(clean_name) ==
    IF Len(clean_name) > MaxPartLen
    THEN SubSeq(clean_name, 1, MaxPartLen) ELSE clean_name

\* Lines 269 and 275: the file name of new_path, without and with a counter.
PdfName(clean_name) == clean_name \o <<PdfExt>>
SuffixedName(clean_name, counter) ==
    NamePart(clean_name) \o <<"_">> \o CounterText(counter) \o <<PdfExt>>

\* Line 129: base_name = file.replace('.pdf', '').
BaseName(file) == SelectSeq(file, LAMBDA c : c # PdfExt)

\* The number of digits str ends with.
RECURSIVE TrailingDigits(_)
TrailingDigits(str) ==
    IF str # <<>> /\ IsDigit(str[Len(str)])
    THEN 1 + TrailingDigits(SubSeq(str, 1, Len(str) - 1))
    ELSE 0

\* Line 130: re.sub(r'_\d+$', '', base_name).
StripCounter(base_name) ==
    LET k == TrailingDigits(base_name)
    IN  IF k > 0 /\ Len(base_name) > k /\ base_name[Len(base_name) - k] = "_"
        THEN SubSeq(base_name, 1, Len(base_name) - k - 1)
        ELSE base_name

\* Line 131: clean_name.replace('_', ' ').
SpacedOut(clean_name) ==
    [i \in DOMAIN clean_name |-> IF clean_name[i] = "_" THEN " " ELSE clean_name[i]]

\* Lines 119-137: the three names each PDF of the two subfolders gives.
Subfolders == <<"medical_policies", "pharmacy_policies">>

load_existing_files(folder) ==
    UNION {{BaseName(f[2]),
            StripCounter(BaseName(f[2])),
            SpacedOut(StripCounter(BaseName(f[2])))} : f \in folder}

\* Line 195: re.sub(r'[^\w\s]', ' ', policy_name).strip().
Unpunctuated(policy_name) ==
    Strip([i \in DOMAIN policy_name |->
              IF IsWord(policy_name[i]) \/ IsSpace(policy_name[i])
              THEN policy_name[i] ELSE " "])

\* Lines 186-202, on the two sets of the downloader object.
is_policy_downloaded(downloaded_policies, processed_this_session, policy_name) ==
    \/ policy_name \in processed_this_session
    \/ \E variation \in {policy_name, Underscored(policy_name),
                          Unpunctuated(policy_name)} :
          variation \in downloaded_policies

\* No HumanaPolicyDownloader object, or one whose run() is over.
NoRename == [policy_name |-> <<>>, clean_name |-> <<>>, new_path |-> <<>>,
             counter |-> 1, attempts |-> 0]

NoDownloader ==
    [pc |-> "closed", section |-> 1, downloaded_policies |-> {},
     processed_this_session |-> {}, new_policies |-> {}, handled |-> 0,
     rename |-> NoRename]

\* The names the filter of line 294 keeps of a listing, by the object's sets
\* when the section begins.
NewPolicies(d) ==
    {name \in Names :
        ~is_policy_downloaded(d.downloaded_policies, d.processed_this_session,
                              name)}

\* Lines 15-20, and download_section up to line 294 for the medical
\* section: a new object reads the folders.
downloader_init ==
    /\ downloader.pc = "closed"
    /\ sessions_run < MaxSessions
    /\ sessions_run' = sessions_run + 1
    /\ LET d == [NoDownloader EXCEPT
                    !.pc = "section",
                    !.downloaded_policies = load_existing_files(download_folder)]
       IN downloader' = [d EXCEPT !.new_policies = NewPolicies(d)]
    /\ UNCHANGED <<download_folder, stored_policies, files_fetched>>
    /\ UNCHANGED <<now, jobs>>
    /\ UNCHANGED queueVars
    /\ UNCHANGED schedVars
    /\ UNCHANGED <<configVars, humanaVars, uhcVars, cwdVars>>

\* download_policy, lines 215-217: the policy is known by now.
download_policy_known ==
    /\ downloader.pc = "section"
    /\ downloader.handled < MaxListing
    /\ \E name \in downloader.new_policies :
          /\ is_policy_downloaded(downloader.downloaded_policies,
                                  downloader.processed_this_session, name)
          /\ downloader' = [downloader EXCEPT
                !.processed_this_session = @ \cup {name},
                !.handled = @ + 1]
    /\ UNCHANGED <<download_folder, stored_policies, sessions_run, files_fetched>>
    /\ UNCHANGED <<now, jobs>>
    /\ UNCHANGED queueVars
    /\ UNCHANGED schedVars
    /\ UNCHANGED <<configVars, humanaVars, uhcVars, cwdVars>>

\* download_policy, lines 219-253, when no file arrives in 15 seconds.
download_policy_timeout ==
    /\ downloader.pc = "section"
    /\ downloader.handled < MaxListing
    /\ \E name \in downloader.new_policies :
          /\ ~is_policy_downloaded(downloader.downloaded_policies,
                                   downloader.processed_this_session, name)
          /\ downloader' = [downloader EXCEPT
                !.processed_this_session = @ \cup {name},
                !.handled = @ + 1]
    /\ UNCHANGED <<download_folder, stored_policies, sessions_run, files_fetched>>
    /\ UNCHANGED <<now, jobs>>
    /\ UNCHANGED queueVars
    /\ UNCHANGED schedVars
    /\ UNCHANGED <<configVars, humanaVars, uhcVars, cwdVars>>

\* A file of the section's subfolder.
InFolder(d, file) == <<Subfolders[d.section], file>>

\* download_policy when the file arrives (lines 242-243), and
\* move_and_rename_file up to line 272.
move_and_rename_file ==
    /\ downloader.pc = "section"
    /\ downloader.handled < MaxListing
    /\ files_fetched < MaxFetched
    /\ files_fetched' = files_fetched + 1
    /\ \E name \in downloader.new_policies :
          /\ ~is_policy_downloaded(downloader.downloaded_policies,
                                   downloader.processed_this_session, name)
          /\ downloader' = [downloader EXCEPT
                !.pc = "rename",
                !.rename = [policy_name |-> name,
                            clean_name |-> CleanName(name),
                            new_path |-> PdfName(CleanName(name)),
                            counter |-> 1, attempts |-> 0]]
    /\ UNCHANGED <<download_folder, stored_policies, sessions_run>>
    /\ UNCHANGED <<now, jobs>>
    /\ UNCHANGED queueVars
    /\ UNCHANGED schedVars
    /\ UNCHANGED <<configVars, humanaVars, uhcVars, cwdVars>>

\* Lines 273-276: one turn of the loop, new_path being taken.
rename_next ==
    /\ downloader.pc = "rename"
    /\ InFolder(downloader, downloader.rename.new_path) \in download_folder
    /\ downloader' = [downloader EXCEPT
          !.rename.new_path = SuffixedName(downloader.rename.clean_name,
                                           downloader.rename.counter),
          !.rename.counter = @ + 1,
          !.rename.attempts = @ + 1]
    /\ UNCHANGED <<download_folder, stored_policies, sessions_run, files_fetched>>
    /\ UNCHANGED <<now, jobs>>
    /\ UNCHANGED queueVars
    /\ UNCHANGED schedVars
    /\ UNCHANGED <<configVars, humanaVars, uhcVars, cwdVars>>

\* Line 278, new_path being free, and lines 244-246 of download_policy.
rename_done ==
    /\ downloader.pc = "rename"
    /\ InFolder(downloader, downloader.rename.new_path) \notin download_folder
    /\ download_folder' =
          download_folder \cup {InFolder(downloader, downloader.rename.new_path)}
    /\ stored_policies' = stored_policies \cup {downloader.rename.policy_name}
    /\ downloader' = [downloader EXCEPT
          !.pc = "section",
          !.processed_this_session = @ \cup {downloader.rename.policy_name},
          !.downloaded_policies = @ \cup {downloader.rename.policy_name},
          !.handled = @ + 1,
          !.rename = NoRename]
    /\ UNCHANGED <<sessions_run, files_fetched>>
    /\ UNCHANGED <<now, jobs>>
    /\ UNCHANGED queueVars
    /\ UNCHANGED schedVars
    /\ UNCHANGED <<configVars, humanaVars, uhcVars, cwdVars>>

\* The section's listing is through: the pharmacy section follows the medical
\* one (lines 332-336), and run() closes the browser after it (line 351).
section_end ==
    /\ downloader.pc = "section"
    /\ downloader' =
          IF downloader.section < Len(Subfolders)
          THEN [downloader EXCEPT !.section = @ + 1, !.handled = 0,
                                  !.new_policies = NewPolicies(downloader)]
          ELSE NoDownloader
    /\ UNCHANGED <<download_folder, stored_policies, sessions_run, files_fetched>>
    /\ UNCHANGED <<now, jobs>>
    /\ UNCHANGED queueVars
    /\ UNCHANGED schedVars
    /\ UNCHANGED <<configVars, humanaVars, uhcVars, cwdVars>>

\* ---------------------------------------------------------- get_job_status
\* Lines 484-501: the first entry of active_jobs under the key job_id, else the
\* first job of completed_jobs with that job_id, else the first of jobs_queue,
\* else None.  The Optional[Dict] is a sequence of at most one record, the
\* fields asdict(job) copies from the job object.
FirstWith(s, job_id) ==
    LET hits == {i \in DOMAIN s : jobs[s[i]].job_id = job_id}
    IN  CHOOSE i \in hits : \A k \in hits : i <= k

get_job_status(job_id) ==
    IF \E i \in DOMAIN active_jobs : active_jobs[i].job_id = job_id
    THEN LET i == CHOOSE k \in DOMAIN active_jobs : active_jobs[k].job_id = job_id
         IN  <<jobs[active_jobs[i].job]>>
    ELSE IF \E i \in DOMAIN completed_jobs : jobs[completed_jobs[i]].job_id = job_id
    THEN <<jobs[completed_jobs[FirstWith(completed_jobs, job_id)]]>>
    ELSE IF \E i \in DOMAIN jobs_queue : jobs[jobs_queue[i]].job_id = job_id
    THEN <<jobs[jobs_queue[FirstWith(jobs_queue, job_id)]]>>
    ELSE <<>>

\* Lines 503-520: the "jobs" counters of get_dashboard_data.
get_dashboard_data ==
    [pending |-> Len(jobs_queue),
     active |-> Len(active_jobs),
     total_completed |-> Len(completed_jobs)]

\* ----------------------------------------------------------------- claims

\* C1: at every instant, for each source at most one job has status RUNNING.
C1_AtMostOneRunningPerSource ==
    \A s \in Range(Sources) :
        Cardinality({j \in JobObjects :
                        jobs[j].scraper_type = s /\ jobs[j].status = RUNNING}) <= 1

\* The jobs process_job_queue has handed to the executor (line 388).
Dispatched == {j \in JobObjects : future[j] # "none"}

\* C2: at every instant the number of jobs dispatched to a worker and not yet
\* moved to completed_jobs is at most max_concurrent_jobs.
C2_ActiveWithinLimit ==
    Cardinality(Dispatched \ Range(completed_jobs)) <= max_concurrent_jobs

\* C3: in every step, a job's status changes only PENDING to RUNNING or
\* RUNNING to COMPLETED or FAILED: no job enters RUNNING twice and no status
\* changes once it is COMPLETED or FAILED.
C3_StatusTransitions ==
    [][\A j \in JobObjects :
          jobs'[j].status # jobs[j].status =>
             \/ jobs[j].status = PENDING /\ jobs'[j].status = RUNNING
             \/ jobs[j].status = RUNNING /\ jobs'[j].status \in {COMPLETED, FAILED}]_vars
\* C3 witness: a job that has been run and retired to completed_jobs.
C3_Witness ==
    \E j \in JobObjects : Terminal(j) /\ j \in Range(completed_jobs)

\* C4: any two distinct jobs created by create_job have distinct job_id values.
C4_DistinctJobIds ==
    \A i, j \in JobObjects : i # j => jobs[i].job_id # jobs[j].job_id

\* The state part of C5: a job whose scraper raised is FAILED with the failure
\* in its errors list and its future holds a result, not an exception; and
\* whenever process_job_queue has returned, every job it took from jobs_queue
\* has reached a terminal state.
FailureRecorded ==
    /\ \A j \in raised :
          /\ jobs[j].status = FAILED
          /\ \E i \in DOMAIN jobs[j].errors : jobs[j].errors[i].kind = "exception"
          /\ future[j] = "result"
    /\ pjq_pc = "idle" =>
          \A j \in JobObjects : j \in Range(jobs_queue) \/ Terminal(j)

\* C5: a job whose scraper raised is FAILED with the failure in its errors
\* list; nothing is left for process_job_queue to rethrow; and once a scraper
\* has raised, every job that exists is still run to a terminal state.
C5_FailureContained ==
    /\ []FailureRecorded
    /\ \A k \in 1..MaxJobs :
          []((raised # {} /\ k \in JobObjects) => <>(k \in JobObjects /\ Terminal(k)))
\* C5 witness: process_job_queue has returned, one job's scraper raised and
\* another job, dispatched after it, was run to COMPLETED and retired.
C5_Witness ==
    /\ pjq_pc = "idle"
    /\ \E j \in raised, k \in JobObjects :
          /\ j < k
          /\ jobs[k].status = COMPLETED
          /\ {j, k} \subseteq Range(completed_jobs)

\* C6: once process_job_queue has drained, every created job is present
\* exactly once in completed_jobs with status COMPLETED or FAILED.
C6_EveryJobRecordedOnce ==
    (pjq_pc = "idle" /\ jobs_queue = <<>>) =>
        \A j \in JobObjects : Occurrences(completed_jobs, j) = 1 /\ Terminal(j)

\* C7: process_job_queue never returns while jobs_queue or active_jobs is
\* non-empty.
C7_ReturnsOnlyWhenDrained ==
    [][(pjq_pc = "shutdown" /\ pjq_pc' = "idle") =>
          (jobs_queue = <<>> /\ active_jobs = <<>>)]_vars

\* C8: of two jobs of the same source, the one created first enters RUNNING
\* before the other does.
C8_FifoWithinSource ==
    [][\A j \in JobObjects :
          (jobs[j].status = PENDING /\ jobs'[j].status = RUNNING) =>
             \A i \in 1..(j - 1) :
                jobs[i].scraper_type = jobs[j].scraper_type =>
                   jobs[i].status # PENDING]_vars

\* C9: for each source and each scheduled instant of its recurrence, the
\* scheduler's ticks create exactly one job: never a second one for the same
\* instant.
C9_OneJobPerInstant ==
    \A key \in DOMAIN fired : fired[key] <= 1

\* The control-loop threads that have not left run_scheduler.
AliveThreads == {t \in DOMAIN thread_pc : thread_pc[t] # "dead"}

\* C10: at most one scheduler control-loop thread is alive at any time, and
\* when stop_scheduler returns no control-loop thread is still running.
C10_OneLoopThread ==
    [][/\ Cardinality(AliveThreads') <= 1
       /\ \A c \in Callers :
             (caller_pc[c] \in {"stop_join", "joining"} /\ caller_pc'[c] = "idle")
                => AliveThreads' = {}]_vars

\* C11: create_job called with a source identifier that is unknown, or that
\* is disabled in the configuration, raises an error and appends no job to
\* jobs_queue.
C11_RejectsUnknownOrDisabled ==
    (create_job_result # NoCall
        /\ (create_job_result.scraper_type \notin ScraperType
               \/ ~create_job_result.enabled))
       => (create_job_result.raised /\ ~create_job_result.appended)

\* The error count a job reports: the n of its "n errors occurred" entry,
\* 0 without one.
ReportedErrors(job) ==
    IF \E k \in DOMAIN job.errors : job.errors[k].kind = "errors occurred"
    THEN (job.errors[CHOOSE k \in DOMAIN job.errors :
                        job.errors[k].kind = "errors occurred"]).n
    ELSE 0

\* A candidate of the title+date sync that is NEW, UPDATED or MISSING-LOCALLY
\* against the store as it was when the sync began.
HumanaFetchable(e, old) ==
    \/ e.title \notin DOMAIN old
    \/ old[e.title].publish_date # e.publish_date
    \/ e.missing

\* C13: when a sync job completes, files_downloaded is the number of NEW,
\* UPDATED and MISSING-LOCALLY candidates whose download succeeded,
\* files_skipped the number of UNCHANGED candidates, and the reported error
\* count the number of candidates whose download failed.
C13_CountersMatchClassification ==
    [][(scrape.pc = "loop" /\ scrape'.pc = "idle" /\ humana_job'.status = COMPLETED) =>
          LET old == scrape.old_metadata
              log == scrape.log
              fetched == {k \in DOMAIN log : HumanaFetchable(log[k], old) /\ log[k].ok}
              unchanged == {k \in DOMAIN log : ~HumanaFetchable(log[k], old)}
              failed == {k \in DOMAIN log : HumanaFetchable(log[k], old) /\ ~log[k].ok}
          IN /\ humana_job'.files_downloaded = Cardinality(fetched)
             /\ humana_job'.files_skipped = Cardinality(unchanged)
             /\ ReportedErrors(humana_job') = Cardinality(failed)]_vars

\* The persisted record of a title: a set with the record, empty without one.
RecordOf(dict, key) == IF key \in DOMAIN dict THEN {dict[key]} ELSE {}

\* C14: after a candidate's download has failed in a sync, the persisted
\* record of its title is what it was when the sync began: the old change
\* token, or no record.
C14_FailedFetchKeepsRecord ==
    \A k \in DOMAIN scrape.log :
        (scrape.log[k].needs_download /\ ~scrape.log[k].ok) =>
            RecordOf(load_previous_metadata(metadata_file), scrape.log[k].title)
               = RecordOf(scrape.old_metadata, scrape.log[k].title)

\* C17: in scrape_claims_payment a candidate whose title is in the stored
\* metadata with another publish date is counted as updated and a download
\* is made for it, never a skip, with or without its local file; the skipped
\* counter counts only the candidates no download was made for.
C17_DateChangeIsUpdated ==
    /\ \A k \in DOMAIN scrape.log :
          LET e == scrape.log[k] IN
          (e.title \in DOMAIN scrape.old_metadata
              /\ scrape.old_metadata[e.title].publish_date # e.publish_date)
             => (e.updated /\ e.needs_download)
    /\ LET log == scrape.log
           changed == {k \in DOMAIN log :
                          /\ log[k].title \in DOMAIN scrape.old_metadata
                          /\ scrape.old_metadata[log[k].title].publish_date
                                # log[k].publish_date}
           skipped == {k \in DOMAIN log : ~log[k].needs_download}
       IN /\ scrape.updated = Cardinality(changed)
          /\ scrape.updated_policies = Cardinality(changed)
          /\ scrape.skipped = Cardinality(skipped)
\* C17 witness: a sync has re-downloaded a candidate whose stored date
\* differed and whose file was present, and has skipped an unchanged one.
C17_Witness ==
    /\ \E k \in DOMAIN scrape.log :
          LET e == scrape.log[k] IN
          /\ e.title \in DOMAIN scrape.old_metadata
          /\ scrape.old_metadata[e.title].publish_date # e.publish_date
          /\ ~e.missing
          /\ e.ok
    /\ \E k \in DOMAIN scrape.log : ~scrape.log[k].needs_download

\* C18: a title that has a record in the persisted metadata of a source
\* still has one after every step of every later sync.
C18_StoreKeysNeverRemoved ==
    [][StoredTitles(metadata_file) \subseteq StoredTitles(metadata_file')]_vars

\* C12: when a sync sees the candidate set the sync before it saw (and that
\* sync fetched every candidate without an error), its job reports
\* files_downloaded = 0 and files_skipped = the number of candidates.
C12_SecondSyncSkipsAll ==
    [][(scraper.pc = "save" /\ scraper'.pc = "idle"
           /\ ~scraper.fetch_failed
           /\ uhc_seen = <<Candidates(scraper)>>) =>
          /\ uhc_job'.files_downloaded = 0
          /\ uhc_job'.files_skipped = Cardinality(Candidates(scraper))]_vars

\* C15: a candidate whose identity key is in the fingerprint store, with an
\* equal change token, and whose local file is absent is fetched again.
C15_MissingLocallyRefetched ==
    \A k \in DOMAIN scraper.log :
        (scraper.log[k].in_store /\ ~scraper.log[k].file_exists) =>
            scraper.log[k].did \in {"downloaded", "failed"}

\* C16: a candidate whose identity key is not in the fingerprint store is
\* NEW and fetched, also when a file with its derived filename exists in the
\* output folder.
C16_AbsentKeyIsFetched ==
    \A k \in DOMAIN scraper.log :
        ~scraper.log[k].in_store =>
            scraper.log[k].did \in {"downloaded", "failed"}

\* C19: when fetching the candidate list of a source fails, the job ends
\* FAILED with exactly one error entry and files_downloaded = files_skipped
\* = 0, and the persisted fingerprint store is what it was before the job.
C19_FetchFailureFailsJob ==
    [][(scraper.fetch_failed /\ scraper'.pc = "idle") =>
          /\ uhc_job'.status = FAILED
          /\ Len(uhc_job'.errors) = 1
          /\ uhc_job'.files_downloaded = 0
          /\ uhc_job'.files_skipped = 0
          /\ uhc_metadata_file' = uhc_metadata_file]_vars

\* C20: no download replaces a file that holds another identity key's
\* content; a candidate that is to be materialized and whose derived filename
\* is taken by another artifact ends up in a file of its own.
C20_NoOverwriteFreeName ==
    /\ \A k \in DOMAIN scrape.log : ~scrape.log[k].overwrote
    /\ \A k \in DOMAIN scraper.log :
          LET e == scraper.log[k] IN
          /\ ~(e.taken /\ e.did = "downloaded")
          /\ (e.taken /\ ~e.in_store) =>
                \E filepath \in DOMAIN uhc_folder : uhc_folder[filepath] = e.url

\* C23: for every job that reached COMPLETED or FAILED and was retired by
\* process_job_queue, get_job_status(job_id) returns the record of that very
\* job, with its terminal status and its errors list.
C23_RetiredJobFound ==
    \A j \in Range(completed_jobs) :
        Terminal(j) => get_job_status(jobs[j].job_id) = <<jobs[j]>>

\* C24: from the moment create_job returns, get_job_status of the job's id
\* never returns None and shows the job's current status, also while
\* process_job_queue runs.
C24_NeverNone ==
    \A j \in JobObjects :
        LET r == get_job_status(jobs[j].job_id)
        IN  r # <<>> /\ r[1].status = jobs[j].status

\* C25: a terminal job whose scraper reported n > 0 errors has exactly n
\* entries in its errors list.
C25_ErrorsListLength ==
    \A j \in JobObjects :
        Terminal(j) =>
            \A i \in DOMAIN jobs[j].errors :
                jobs[j].errors[i].kind = "errors occurred" =>
                    Len(jobs[j].errors) = jobs[j].errors[i].n

\* C26: a job is RUNNING from the moment it is popped from jobs_queue: no job
\* held in active_jobs has status PENDING.
C26_NoPendingInActive ==
    \A i \in DOMAIN active_jobs : jobs[active_jobs[i].job].status # PENDING

\* C30: at every instant each created job is held in exactly one of
\* jobs_queue, active_jobs and completed_jobs, so the dashboard's pending +
\* active + total_completed equals the number of jobs created so far.
C30_JobsAccountedFor ==
    /\ \A j \in JobObjects :
          Occurrences(jobs_queue, j)
            + Cardinality({i \in DOMAIN active_jobs : active_jobs[i].job = j})
            + Occurrences(completed_jobs, j) = 1
    /\ get_dashboard_data.pending + get_dashboard_data.active
         + get_dashboard_data.total_completed = Len(jobs)

\* C21: the search of move_and_rename_file for a free file name stops after
\* a bounded number of suffixes, NamingCap of them, with a naming-exhaustion
\* error instead of a further attempt.
C21_SuffixSearchCapped ==
    downloader.rename.attempts <= NamingCap

\* C28: for every policy name move_and_rename_file has stored a file for, a
\* fresh HumanaPolicyDownloader (load_existing_files on the folders as they
\* are) finds is_policy_downloaded(name) true.
C28_StoredIsRecognised ==
    \A name \in stored_policies :
        is_policy_downloaded(load_existing_files(download_folder), {}, name)

\* C22: a job in which some but not all downloads failed ends COMPLETED with
\* a non-empty error record, and a job in which every download failed ends
\* FAILED.
C22_PartialFailureStatus ==
    [][(scrape.pc = "loop" /\ scrape'.pc = "idle") =>
          LET log == scrape.log
              attempted == {k \in DOMAIN log : log[k].needs_download}
              failed == {k \in attempted : ~log[k].ok}
          IN /\ (failed # {} /\ failed # attempted) =>
                    (humana_job'.status = COMPLETED /\ humana_job'.errors # <<>>)
             /\ (failed # {} /\ failed = attempted) =>
                    humana_job'.status = FAILED]_vars

\* C27: in a sync the persisted metadata is written once, after every
\* candidate has been handled: while the loop over the candidates runs, the
\* metadata file holds what it held when the sync began.
C27_StoreWrittenOnceAtEnd ==
    scrape.pc = "loop" =>
        load_previous_metadata(metadata_file) = scrape.old_metadata

\* C29: when a humana_claims job and a uhc_policies job run concurrently in
\* the pool, each scraper body runs with the working directory equal to
\* script_dir for its whole duration, and once both have finished the working
\* directory is what it was before the drain.
C29_CwdHeldAndRestored ==
    /\ \A w \in Runners :
          /\ runner[w].pc = "body" => cwd = script_dir
          /\ runner[w].resolved \subseteq {script_dir}
    /\ (\A w \in Runners : runner[w].pc = "done") => cwd = cwd_start

\* The agent after construction, whatever its configuration enables.
InitAgent ==
    /\ now = 0
    /\ jobs = <<>>
    /\ jobs_queue = <<>>
    /\ active_jobs = <<>>
    /\ completed_jobs = <<>>
    /\ future = <<>>
    /\ work_queue = <<>>
    /\ pjq_pc = "idle"
    /\ pjq_job = NoJob
    /\ raised = {}
    /\ scheduler_running = FALSE
    /\ scheduler_thread = NoThread
    /\ thread_pc = <<>>
    /\ thread_todo = <<>>
    /\ schedule_jobs = <<>>
    /\ caller_pc = [c \in Callers |-> "idle"]
    /\ caller_join = [c \in Callers |-> NoThread]
    /\ fired = [k \in {} |-> 0]
    /\ registrations = 0
    /\ create_job_result = NoCall
    /\ metadata_file = <<>>
    /\ save_dir = NoDict
    /\ scrape = NoScrape
    /\ humana_job = NewSyncJob
    /\ uhc_metadata_file = NoDict
    /\ uhc_folder = NoDict
    /\ scraper = NoScraper
    /\ uhc_job = NewSyncJob
    /\ uhc_seen = <<>>
    /\ cwd_start = NoDir
    /\ runner = [w \in Runners |-> NoRunner]
    /\ download_folder = {}
    /\ downloader = NoDownloader
    /\ stored_policies = {}
    /\ sessions_run = 0
    /\ files_fetched = 0

\* The agent with load_config's default configuration.
Init ==
    /\ InitAgent
    /\ cwd = "launch_dir"
    /\ config_enabled = [s \in ScraperType |-> TRUE]

Next ==
    \/ create_job
    \/ Tick
    \/ worker_take
    \/ run_job_begin
    \/ run_job_end
    \/ pjq_enter
    \/ pjq_while_queue
    \/ pjq_while_active
    \/ pjq_pop
    \/ pjq_submit
    \/ pjq_collect
    \/ pjq_return

\* The job queue and the worker pool, with create_job called at any moment by
\* any thread (the scheduler's thread calls the same create_job).
Spec == Init /\ [][Next]_vars

\* The same, with every thread of the pool scheduled again and again: the main
\* thread polls jobs_queue every 10 s (lines 595-599) and runs
\* process_job_queue to its end, the executor's threads take and run what is
\* submitted, and every scraper call finishes.
FairSpec ==
    /\ Spec
    /\ WF_vars(pjq_enter)
    /\ WF_vars(pjq_while_queue)
    /\ WF_vars(pjq_while_active)
    /\ WF_vars(pjq_pop)
    /\ WF_vars(pjq_submit)
    /\ WF_vars(pjq_collect)
    /\ WF_vars(pjq_return)
    /\ WF_vars(worker_take)
    /\ WF_vars(run_job_begin)
    /\ WF_vars(run_job_end)

\* The scheduler: its registrations, its control-loop threads, the callers of
\* start_scheduler and stop_scheduler, and the jobs its ticks enqueue.
SchedNext ==
    \/ Tick
    \/ schedule_routine_jobs
    \/ start_scheduler_test
    \/ start_scheduler_set
    \/ start_scheduler_thread
    \/ stop_scheduler_clear
    \/ stop_scheduler_join
    \/ stop_scheduler_return
    \/ run_scheduler_loop
    \/ run_scheduler_job

SchedSpec == Init /\ [][SchedNext]_vars

\* create_job's callers, under every configuration agent_config.json can
\* give the three scrapers.
ConfigInit ==
    /\ InitAgent
    /\ cwd = "launch_dir"
    /\ config_enabled \in [ScraperType -> BOOLEAN]

ConfigNext ==
    \/ create_job_call
    \/ Tick

ConfigSpec == ConfigInit /\ [][ConfigNext]_vars

\* humana_claims jobs run one after another, from an empty installation.
HumanaNext ==
    \/ scrape_begin
    \/ scrape_fetch_fails
    \/ scrape_policy
    \/ scrape_end

HumanaSpec == Init /\ [][HumanaNext]_vars

\* uhc_policies jobs run one after another, from an empty installation.
UhcNext ==
    \/ uhc_begin
    \/ uhc_download_policy
    \/ uhc_rpub
    \/ uhc_end
    \/ uhc_file_removed

UhcSpec == Init /\ [][UhcNext]_vars

\* A humana_claims and a uhc_policies job drained together, again and again,
\* by a process launched from any directory.
CwdInit ==
    /\ InitAgent
    /\ config_enabled = [s \in ScraperType |-> TRUE]
    /\ cwd \in Directories

CwdNext ==
    \/ drain_begin
    \/ \E w \in Runners : runner_getcwd(w)
    \/ \E w \in Runners : runner_chdir(w)
    \/ \E w \in Runners : runner_body(w)
    \/ \E w \in Runners : runner_restore(w)

CwdSpec == CwdInit /\ [][CwdNext]_vars

\* HumanaPolicyDownloader runs one after another on one download folder,
\* empty at first.
DownloaderNext ==
    \/ downloader_init
    \/ download_policy_known
    \/ download_policy_timeout
    \/ move_and_rename_file
    \/ rename_next
    \/ rename_done
    \/ section_end

DownloaderSpec == Init /\ [][DownloaderNext]_vars
====
